---- MODULE Spec2Model ----
(***************************************************************************)
(* Model of meteostat/core/loader.py: the single-dataset loader            *)
(* (load_handler) and the batch coordinator (processing_handler).          *)
(*                                                                         *)
(* One behaviour is one call of processing_handler(datasets, load_handler, *)
(* cores, threads).  Every load_handler invocation is split at its         *)
(* accesses to the staging file 'file.txt', the only state the invocations *)
(* share, so that the interleavings of pool workers are explored.          *)
(***************************************************************************)
EXTENDS Integers, Sequences, FiniteSets, TLC

\* ------------------------------------------------------------------ bounds
MaxDatasets == 3
MaxPool == 2

\* ------------------------------------------------------ remote resources
\* A response body is a sequence of tokens: a gzip member is a header, a
\* run of deflate blocks (one CSV line each) and the CRC/size trailer.
Hdr == [t |-> "hdr", line |-> <<>>]
Eos == [t |-> "eos", line |-> <<>>]
Raw == [t |-> "raw", line |-> <<>>]
Blk(line) == [t |-> "blk", line |-> line]

Paths == {"unreachable", "missing", "empty", "trunc", "badcsv", "a.csv.gz", "b.csv.gz"}

\* What requests.get(url).content does for each resource: raise, or hand
\* back the body whatever the HTTP status (no raise_for_status()).
Remote(path) ==
  CASE path = "unreachable" -> [exc |-> "ConnectionError", status |-> 0, body |-> <<>>]
    [] path = "missing"     -> [exc |-> "none", status |-> 404, body |-> <<Raw, Raw>>]
    [] path = "empty"       -> [exc |-> "none", status |-> 200, body |-> <<>>]
    [] path = "trunc"       -> [exc |-> "none", status |-> 200,
                                body |-> <<Hdr, Blk(<<"2020-01-05", "5">>), Blk(<<"2020-01-06", "6">>)>>]
    [] path = "badcsv"      -> [exc |-> "none", status |-> 200,
                                body |-> <<Hdr, Blk(<<"2020-01-07", "7">>),
                                           Blk(<<"2020-01-08", "8", "9">>), Eos>>]
    [] path = "a.csv.gz"    -> [exc |-> "none", status |-> 200,
                                body |-> <<Hdr, Blk(<<"2020-01-01", "1">>),
                                           Blk(<<"n/a", "2">>), Eos>>]
    [] OTHER                -> [exc |-> "none", status |-> 200,
                                body |-> <<Hdr, Blk(<<"2020-01-03", "3">>), Eos>>]

\* ------------------------------------------------------------- descriptor
Columns == <<"time", "temp">>

\* parse_dates designates the date columns by position or by name.
ByIndex(s) == [by |-> "index", idx |-> s, names |-> <<>>]
ByName(s) == [by |-> "name", idx |-> <<>>, names |-> s]
ParseDatesOptions == {ByIndex(<<1>>), ByName(<<"time">>)}

NoTypes == [none |-> TRUE, items |-> <<>>]
Dict(items) == [none |-> FALSE, items |-> items]
TypesOptions ==
  { Dict(<< <<"time", "str">>, <<"temp", "float64">> >>),
    Dict(<< <<"temp", "float64">> >>),
    NoTypes }

\* --------------------------------------------------------- result values
NoResult == [kind |-> "none", exc |-> "none", columns |-> <<>>, rows |-> <<>>]
Table(columns, rows) == [kind |-> "table", exc |-> "none", columns |-> columns, rows |-> rows]
Raised(exc) == [kind |-> "raised", exc |-> exc, columns |-> <<>>, rows |-> <<>>]

\* ------------------------------------------------------------------- gzip
\* GzipFile.read(1): an empty stream is end-of-file (b''), anything that
\* does not start with the magic number is BadGzipFile, a stream that ends
\* inside the header or before its first block is EOFError.
ReadOne(x) ==
  IF x = <<>> THEN "none"
  ELSE IF x[1].t # "hdr" THEN "BadGzipFile"
  ELSE IF Len(x) = 1 THEN "EOFError"
  ELSE IF x[2].t \in {"blk", "eos"} THEN "none"
  ELSE "zlib.error"

RECURSIVE Inflate(_, _)
Inflate(x, k) ==
  IF k > Len(x) THEN [out |-> <<>>, err |-> "EOFError"]
  ELSE IF x[k].t = "eos" THEN [out |-> <<>>, err |-> "none"]
  ELSE IF x[k].t = "blk"
    THEN LET r == Inflate(x, k + 1)
         IN  [out |-> <<x[k].line>> \o r.out, err |-> r.err]
  ELSE [out |-> <<>>, err |-> "zlib.error"]

\* shutil.copyfileobj(gzip.open(BytesIO(x)), f_out): the lines written
\* before the stream ends or breaks, and the error that ends the copy.
Decompress(x) ==
  IF x = <<>> THEN [out |-> <<>>, err |-> "none"]
  ELSE IF x[1].t # "hdr" THEN [out |-> <<>>, err |-> "BadGzipFile"]
  ELSE Inflate(x, 2)

\* ----------------------------------------------------------------- pandas
DateStrings == {"2020-01-01", "2020-01-03", "2020-01-05", "2020-01-06",
                "2020-01-07", "2020-01-08"}
NumStrings == {"1", "2", "3", "4", "5", "6", "7", "8", "9"}

Cell(k, v) == [k |-> k, v |-> v]
NaN == Cell("nan", "")
NaT == Cell("nat", "")
ToTimestamp(s) == Cell("ts", s \o "T00:00:00")
ToFloat(s) == Cell("float", s \o ".0")
ToInt(s) == Cell("int", s)
ToStr(s) == Cell("str", s)

Keys(types) == [k \in 1..Len(types.items) |-> types.items[k][1]]
DType(types, col) ==
  IF types.none \/ ~\E k \in 1..Len(types.items) : types.items[k][1] = col
  THEN "infer"
  ELSE LET k == CHOOSE k \in 1..Len(types.items) : types.items[k][1] = col
       IN  types.items[k][2]
IsDateCol(c, columns, pd) ==
  IF pd.by = "index" THEN \E k \in 1..Len(pd.idx) : pd.idx[k] = c
  ELSE \E k \in 1..Len(pd.names) : pd.names[k] = columns[c]

\* Field c of a line; a short line is padded with missing values.
Field(line, c) == IF c <= Len(line) THEN line[c] ELSE ""

\* One column of pd.read_csv(file_out, names=columns, dtype=types,
\* parse_dates=parse_dates): a date column becomes timestamps only when all
\* its values parse, a float64 column must convert, and an undeclared
\* column is inferred.
ParseColumn(lines, c, columns, ty, pd) ==
  LET vals == [r \in 1..Len(lines) |-> Field(lines[r], c)]
      dt == DType(ty, columns[c])
      allNum == \A r \in 1..Len(lines) : vals[r] \in NumStrings \cup {""}
      allDate == \A r \in 1..Len(lines) : vals[r] \in DateStrings
  IN  IF dt = "float64"
        THEN [r \in 1..Len(lines) |-> IF vals[r] = "" THEN NaN ELSE ToFloat(vals[r])]
      ELSE IF IsDateCol(c, columns, pd)
        THEN [r \in 1..Len(lines) |->
                IF allDate THEN ToTimestamp(vals[r])
                ELSE IF vals[r] = "" THEN NaN ELSE ToStr(vals[r])]
      ELSE IF dt = "infer" /\ allNum
        THEN [r \in 1..Len(lines) |-> IF vals[r] = "" THEN NaN ELSE ToInt(vals[r])]
      ELSE [r \in 1..Len(lines) |-> IF vals[r] = "" THEN NaN ELSE ToStr(vals[r])]

\* pd.read_csv on the staged lines: ParserError for a line with more fields
\* than names, ValueError for a value a float64 column cannot hold; no
\* lines at all give the empty table with the declared names.
ReadCsv(lines, columns, ty, pd) ==
  IF \E r \in 1..Len(lines) : Len(lines[r]) > Len(columns)
    THEN Raised("ParserError")
  ELSE IF \E r \in 1..Len(lines), c \in 1..Len(columns) :
            /\ DType(ty, columns[c]) = "float64"
            /\ Field(lines[r], c) \notin NumStrings \cup {""}
    THEN Raised("ValueError")
  ELSE LET cols == [c \in 1..Len(columns) |->
                      ParseColumn(lines, c, columns, ty, pd)]
       IN  Table(columns,
                 [r \in 1..Len(lines) |-> [c \in 1..Len(columns) |-> cols[c][r]]])

\* pd.to_datetime(value, errors="coerce")
CoerceCell(cell) ==
  IF cell.k = "ts" THEN cell
  ELSE IF cell.k = "str" /\ cell.v \in DateStrings THEN ToTimestamp(cell.v)
  ELSE NaT
CoerceDates(df, pd) ==
  Table(df.columns,
        [r \in 1..Len(df.rows) |->
           [c \in 1..Len(df.columns) |->
              IF IsDateCol(c, df.columns, pd) THEN CoerceCell(df.rows[r][c])
              ELSE df.rows[r][c]]])

\* Lines 117-120: df.iloc[:, parse_dates] selects by position only; given
\* column names it raises IndexError before any value is converted.
Coerce(df, pd) ==
  IF pd.by = "name" THEN Raised("IndexError") ELSE CoerceDates(df, pd)

\* ------------------------------------------------------------------ state
VARIABLES
  cores, threads, datasets,  \* arguments of processing_handler
  types, parse_dates,        \* the descriptor fields the batch shares
  coerce_dates,
  hpc,                       \* processing_handler: start, loading, returned, raised
  strategy,                  \* branch taken at lines 40/53/66
  lpc,                       \* per dataset, the position of its load_handler call
  output,                    \* per dataset, what its load call produced
  warned,                    \* per dataset, calls of warn() made by its load
  calls,                     \* per dataset, invocations of the load function
  fetches,                   \* per dataset, requests.get calls issued for it
  fs,                        \* files in the working directory, by name
  result                     \* what processing_handler returned or raised

args == <<cores, threads, datasets, types, parse_dates, coerce_dates>>
vars == <<args, hpc, strategy, lpc, output, warned, calls, fetches, fs, result>>

N == Len(datasets)
Tasks == 1..N

\* ----------------------------------------------------- processing_handler
\* Variant: the thread pool is tested before the process pool.
Strategy_ThreadsFirst(c, t, n) ==
  IF t > 1 /\ n > 1 THEN "thread"
  ELSE IF c > 1 /\ n > 1 THEN "process"
  ELSE "sequential"

\* The branch chosen by the if / elif / else at lines 40, 53 and 66.
Strategy(c, t, n) ==
  IF c > 1 /\ n > 1 THEN "process"
  ELSE IF t > 1 /\ n > 1 THEN "thread"
  ELSE "sequential"

\* Loads that may run at once: Pool(cores), ThreadPool(threads), or the
\* calling context alone.
PoolSize ==
  IF strategy = "process" THEN cores
  ELSE IF strategy = "thread" THEN threads
  ELSE 1

Active == {i \in Tasks : lpc[i] \notin {"idle", "done"}}

\* file_out = 'file.txt': a relative name, resolved against the working
\* directory that pool processes inherit and threads share.
file_out(i) == "file.txt"
StagingNames == {"file.txt"}
NoFile == [exists |-> FALSE, lines |-> <<>>]

\* except (FileNotFoundError, HTTPError), HTTPError being urllib.error's.
CaughtExceptions == {"FileNotFoundError", "HTTPError"}

\* Lines 124-128: the empty DataFrame over [*types] and the warning; the
\* unpacking of an absent mapping raises before warn() is reached.
ExceptPath(ty) ==
  IF ty.none THEN [df |-> Raised("TypeError"), warns |-> 0]
  ELSE [df |-> Table(Keys(ty), <<>>), warns |-> 1]

\* How an exception raised inside the try block leaves load_handler.
Leave(exc, ty) ==
  IF exc \in CaughtExceptions THEN ExceptPath(ty)
  ELSE [df |-> Raised(exc), warns |-> 0]

\* Variant: the filter tests size > 1 and so drops one-row frames too.
RECURSIVE Filter_SizeAboveOne(_)
Filter_SizeAboveOne(out) ==
  IF out = <<>> THEN <<>>
  ELSE IF Len(Head(out).rows) > 1
    THEN <<Head(out)>> \o Filter_SizeAboveOne(Tail(out))
  ELSE Filter_SizeAboveOne(Tail(out))

\* Remove empty DataFrames (line 72).
RECURSIVE Filter(_)
Filter(out) ==
  IF out = <<>> THEN <<>>
  ELSE IF Len(Head(out).rows) > 0 THEN <<Head(out)>> \o Filter(Tail(out))
  ELSE Filter(Tail(out))

\* pd.concat: rows stacked in list order under the first frame's columns.
RECURSIVE StackRows(_)
StackRows(dfs) ==
  IF dfs = <<>> THEN <<>> ELSE Head(dfs).rows \o StackRows(Tail(dfs))
Concat(dfs) == Table(dfs[1].columns, StackRows(dfs))

\* Variant: the all-empty case hands back the last raw result.
MergeResult_LastWhenEmpty(out) ==
  LET filtered == Filter(out)
  IN  IF Len(filtered) > 0 THEN Concat(filtered)
      ELSE IF Len(out) > 0 THEN out[Len(out)]
      ELSE Raised("IndexError")

\* Line 74.
MergeResult(out) ==
  LET filtered == Filter(out)
  IN  IF Len(filtered) > 0 THEN Concat(filtered)
      ELSE IF Len(out) > 0 THEN out[1]
      ELSE Raised("IndexError")

\* Batches of up to n datasets over a set of remote paths.
Batches(paths, n) == UNION {[1..k -> paths] : k \in 0..n}

\* The calls explored: without pools (cores = threads = 1) over every
\* resource and descriptor; with any pool sizes over the resources that
\* tell the loads of a batch apart, under the fully declared type mapping.
BatchPaths == {"unreachable", "empty", "a.csv.gz", "b.csv.gz"}
FullTypes == Dict(<< <<"time", "str">>, <<"temp", "float64">> >>)

\* The state at the call of processing_handler: nothing loaded, no output,
\* no staging file yet.
Start ==
  /\ hpc = "start"
  /\ strategy = "none"
  /\ lpc = [i \in 1..Len(datasets) |-> "idle"]
  /\ output = [i \in 1..Len(datasets) |-> NoResult]
  /\ warned = [i \in 1..Len(datasets) |-> 0]
  /\ calls = [i \in 1..Len(datasets) |-> 0]
  /\ fetches = [i \in 1..Len(datasets) |-> 0]
  /\ fs = [f \in StagingNames |-> NoFile]
  /\ result = NoResult

Init ==
  /\ \/ /\ cores = 1
        /\ threads = 1
        /\ datasets \in Batches(Paths, MaxDatasets)
        /\ types \in TypesOptions
        /\ parse_dates \in ParseDatesOptions
        /\ coerce_dates \in BOOLEAN
     \/ /\ cores \in 1..MaxPool
        /\ threads \in 1..MaxPool
        /\ datasets \in Batches(BatchPaths, MaxDatasets)
        /\ types = FullTypes
        /\ parse_dates = ByIndex(<<1>>)
        /\ coerce_dates = FALSE
  /\ Start

\* Lines 36-66: the strategy is fixed and, for a pool, the pool created.
Dispatch ==
  /\ hpc = "start"
  /\ hpc' = "loading"
  /\ strategy' = Strategy(cores, threads, N)
  /\ UNCHANGED <<args, lpc, output, warned, calls, fetches, fs, result>>

\* A worker (or the for loop) takes the next dataset, in input order.
StartLoad(i) ==
  /\ hpc = "loading"
  /\ lpc[i] = "idle"
  /\ \A j \in 1..(i - 1) : lpc[j] # "idle"
  /\ Cardinality(Active) < PoolSize
  /\ strategy = "sequential" => \A j \in Tasks : output[j].kind # "raised"
  /\ lpc' = [lpc EXCEPT ![i] = "fetch"]
  /\ calls' = [calls EXCEPT ![i] = @ + 1]
  /\ UNCHANGED <<args, hpc, strategy, output, warned, fetches, fs, result>>

\* One load_handler call ends with df (a table or an exception).
Finish(i, r) ==
  /\ lpc' = [lpc EXCEPT ![i] = "done"]
  /\ output' = [output EXCEPT ![i] = r.df]
  /\ warned' = [warned EXCEPT ![i] = @ + r.warns]

\* Variant: a body that fails the validation read only clears the gzipped
\* flag; the decompression is skipped and the parse still runs.
Fetch_KeepsGoing(i) ==
  /\ lpc[i] = "fetch"
  /\ LET resp == Remote(datasets[i])
         v == ReadOne(resp.body)
     IN  IF resp.exc # "none" THEN Finish(i, Leave(resp.exc, types))
         ELSE IF v = "BadGzipFile"
           THEN /\ lpc' = [lpc EXCEPT ![i] = "parse"]
                /\ UNCHANGED <<output, warned>>
         ELSE IF v # "none" THEN Finish(i, Leave(v, types))
         ELSE /\ lpc' = [lpc EXCEPT ![i] = "open"]
              /\ UNCHANGED <<output, warned>>
  /\ fetches' = [fetches EXCEPT ![i] = @ + 1]
  /\ UNCHANGED <<args, hpc, strategy, calls, fs, result>>

\* Variant: a fetch that failed at transport level is issued once more.
Fetch_RetryOnce(i) ==
  /\ lpc[i] = "fetch"
  /\ LET resp == Remote(datasets[i])
         v == ReadOne(resp.body)
     IN  IF resp.exc # "none" /\ fetches[i] = 0
           THEN UNCHANGED <<lpc, output, warned>>
         ELSE IF resp.exc # "none" THEN Finish(i, Leave(resp.exc, types))
         ELSE IF v = "BadGzipFile" THEN Finish(i, Leave("FileNotFoundError", types))
         ELSE IF v # "none" THEN Finish(i, Leave(v, types))
         ELSE /\ lpc' = [lpc EXCEPT ![i] = "open"]
              /\ UNCHANGED <<output, warned>>
  /\ fetches' = [fetches EXCEPT ![i] = @ + 1]
  /\ UNCHANGED <<args, hpc, strategy, calls, fs, result>>

\* Lines 93-104: the fetch and the one-byte validation read.
Fetch(i) ==
  /\ lpc[i] = "fetch"
  /\ LET resp == Remote(datasets[i])
         v == ReadOne(resp.body)
     IN  IF resp.exc # "none" THEN Finish(i, Leave(resp.exc, types))
         ELSE IF v = "BadGzipFile" THEN Finish(i, Leave("FileNotFoundError", types))
         ELSE IF v # "none" THEN Finish(i, Leave(v, types))
         ELSE /\ lpc' = [lpc EXCEPT ![i] = "open"]
              /\ UNCHANGED <<output, warned>>
  /\ fetches' = [fetches EXCEPT ![i] = @ + 1]
  /\ UNCHANGED <<args, hpc, strategy, calls, fs, result>>

\* Variant: the staging file is opened without truncation ('r+b' on an
\* existing file), so what it held beyond the new payload stays.
OpenStaging_NoTruncate(i) ==
  /\ lpc[i] = "open"
  /\ fs' = [fs EXCEPT ![file_out(i)] = [exists |-> TRUE, lines |-> @.lines]]
  /\ lpc' = [lpc EXCEPT ![i] = "copy"]
  /\ UNCHANGED <<args, hpc, strategy, output, warned, calls, fetches, result>>

\* Line 107: open(file_out, 'wb') creates or truncates the staging file.
OpenStaging(i) ==
  /\ lpc[i] = "open"
  /\ fs' = [fs EXCEPT ![file_out(i)] = [exists |-> TRUE, lines |-> <<>>]]
  /\ lpc' = [lpc EXCEPT ![i] = "copy"]
  /\ UNCHANGED <<args, hpc, strategy, output, warned, calls, fetches, result>>

\* What a write of out at offset 0 through a handle of its own leaves in a
\* file that holds old.
WriteAt0(old, out) ==
  IF Len(out) >= Len(old) THEN out ELSE out \o SubSeq(old, Len(out) + 1, Len(old))

\* Line 108: shutil.copyfileobj(f_in, f_out).
CopyStaging(i) ==
  /\ lpc[i] = "copy"
  /\ LET d == Decompress(Remote(datasets[i]).body)
     IN  /\ fs' = [fs EXCEPT ![file_out(i)] =
                     [exists |-> TRUE, lines |-> WriteAt0(@.lines, d.out)]]
         /\ IF d.err # "none" THEN Finish(i, Leave(d.err, types))
            ELSE /\ lpc' = [lpc EXCEPT ![i] = "parse"]
                 /\ UNCHANGED <<output, warned>>
  /\ UNCHANGED <<args, hpc, strategy, calls, fetches, result>>

\* Lines 109-131: read_csv on the staging file, the coercing pass, return.
Parse(i) ==
  /\ lpc[i] = "parse"
  /\ LET f == fs[file_out(i)]
         df == IF f.exists THEN ReadCsv(f.lines, Columns, types, parse_dates)
               ELSE Raised("FileNotFoundError")
         co == Coerce(df, parse_dates)
     IN  IF df.kind = "raised" THEN Finish(i, Leave(df.exc, types))
         ELSE IF ~coerce_dates THEN Finish(i, [df |-> df, warns |-> 0])
         ELSE IF co.kind = "raised" THEN Finish(i, Leave(co.exc, types))
         ELSE Finish(i, [df |-> co, warns |-> 0])
  /\ UNCHANGED <<args, hpc, strategy, calls, fetches, fs, result>>

\* Variant: a load that raised is left out of the merge and the tables of
\* the other loads are returned.
Merge_SkipsFailed ==
  /\ hpc = "loading"
  /\ \A i \in Tasks : lpc[i] = "done"
  /\ result' = MergeResult(output)
  /\ hpc' = IF result'.kind = "raised" THEN "raised" ELSE "returned"
  /\ UNCHANGED <<args, strategy, lpc, output, warned, calls, fetches, fs>>

\* Variant: the merge runs as soon as one load has returned a table.
Merge_Early ==
  /\ hpc = "loading"
  /\ \E i \in Tasks : lpc[i] = "done" /\ output[i].kind = "table"
  /\ \A i \in Tasks : output[i].kind # "raised"
  /\ result' = MergeResult(output)
  /\ hpc' = IF result'.kind = "raised" THEN "raised" ELSE "returned"
  /\ UNCHANGED <<args, strategy, lpc, output, warned, calls, fetches, fs>>

\* Lines 46-50, 59-63 and 71-74: every load has returned, the pool (if
\* any) is closed and joined, and the results are merged.
Merge ==
  /\ hpc = "loading"
  /\ \A i \in Tasks : lpc[i] = "done" /\ output[i].kind = "table"
  /\ result' = MergeResult(output)
  /\ hpc' = IF result'.kind = "raised" THEN "raised" ELSE "returned"
  /\ UNCHANGED <<args, strategy, lpc, output, warned, calls, fetches, fs>>

\* Variant: the exception is handed on only when every dataset has been
\* loaded, in the for loop too.
Propagate_WaitsForAll ==
  /\ hpc = "loading"
  /\ \A i \in Tasks : lpc[i] = "done"
  /\ \E i \in Tasks :
       /\ output[i].kind = "raised"
       /\ result' = output[i]
  /\ hpc' = "raised"
  /\ UNCHANGED <<args, strategy, lpc, output, warned, calls, fetches, fs>>

\* An exception of a load leaves processing_handler: at once from the for
\* loop, from starmap once every task of the pool has ended.
Propagate ==
  /\ hpc = "loading"
  /\ Active = {}
  /\ strategy # "sequential" => \A i \in Tasks : lpc[i] = "done"
  /\ \E i \in Tasks :
       /\ output[i].kind = "raised"
       /\ result' = output[i]
  /\ hpc' = "raised"
  /\ UNCHANGED <<args, strategy, lpc, output, warned, calls, fetches, fs>>

Next ==
  \/ Dispatch
  \/ \E i \in Tasks : StartLoad(i)
  \/ \E i \in Tasks : Fetch(i)
  \/ \E i \in Tasks : OpenStaging(i)
  \/ \E i \in Tasks : CopyStaging(i)
  \/ \E i \in Tasks : Parse(i)
  \/ Merge
  \/ Propagate

Spec == Init /\ [][Next]_vars

\* Calls under every choice of pool sizes whose loads either return rows
\* or raise.
LivePaths == {"unreachable", "a.csv.gz"}
LiveInit ==
  /\ cores \in 1..MaxPool
  /\ threads \in 1..MaxPool
  /\ datasets \in Batches(LivePaths, MaxDatasets)
  /\ types = FullTypes
  /\ parse_dates = ByIndex(<<1>>)
  /\ coerce_dates = FALSE
  /\ Start

\* Workers, threads and the calling context are scheduled fairly and every
\* fetch answers or fails: a step that stays possible is taken.
FairSpec == LiveInit /\ [][Next]_vars /\ WF_vars(Next)

\* ------------------------------------------------- properties of the code
Body(i) == Remote(datasets[i]).body
Done(i) == lpc[i] = "done"
EmptyTable(r) == r.kind = "table" /\ r.rows = <<>>

\* C1: after dispatch the strategy is one of the three and is fixed by
\* (cores, threads, number of datasets): the process pool iff cores > 1 with
\* more than one dataset, else the thread pool iff threads > 1 with more than
\* one dataset, else sequential; one dataset is always sequential, and a
\* sequential call never has two loads in progress.
C1_StrategySelection ==
  hpc # "start" =>
    /\ strategy \in {"process", "thread", "sequential"}
    /\ strategy = "process" <=> (cores > 1 /\ N > 1)
    /\ strategy = "thread" <=> (~(cores > 1) /\ threads > 1 /\ N > 1)
    /\ N <= 1 => strategy = "sequential"
    /\ strategy = "sequential" => Cardinality(Active) <= 1
    /\ strategy = "process" => Cardinality(Active) <= cores
    /\ strategy = "thread" => Cardinality(Active) <= threads

\* cores > 1 wins over threads > 1, seen with loads of the pool in progress.
C1_Witness ==
  /\ strategy = "process"
  /\ cores > 1
  /\ threads > 1
  /\ N = MaxDatasets
  /\ Cardinality(Active) = 2

\* C2: a load whose fetch fails at transport level ends with a zero-row
\* table, never with an exception.
C2_TransportFailureAbsorbed ==
  \A i \in Tasks :
    (Done(i) /\ Remote(datasets[i]).exc # "none") => EmptyTable(output[i])

\* A body is a well-formed gzip container when it is non-empty and inflates
\* to its end-of-stream trailer.
WellFormed(x) == x # <<>> /\ Decompress(x).err = "none"

\* C3: with a declared type mapping, a load whose response body is not a
\* well-formed gzip container never reaches the parse of the staging file
\* and ends with a zero-row table and its one warning.
C3_MalformedContainerIsMissing ==
  \A i \in Tasks :
    (~types.none /\ Remote(datasets[i]).exc = "none" /\ ~WellFormed(Body(i))) =>
      /\ lpc[i] # "parse"
      /\ Done(i) => (EmptyTable(output[i]) /\ warned[i] = 1)

\* The staged text of a load's own payload does not parse.
ParseFails(i) ==
  /\ Remote(datasets[i]).exc = "none"
  /\ WellFormed(Body(i))
  /\ ReadCsv(Decompress(Body(i)).out, Columns, types, parse_dates).kind = "raised"

\* C4: in a call without pools, a load whose staged content fails to parse
\* ends with a zero-row table, never with the parse error.
C4_ParseFailureAbsorbed ==
  \A i \in Tasks :
    (strategy = "sequential" /\ Done(i) /\ ParseFails(i)) => EmptyTable(output[i])

Failed(i) ==
  \/ Remote(datasets[i]).exc # "none"
  \/ ~WellFormed(Body(i)) /\ Body(i) # <<>>
  \/ ParseFails(i)

\* C5: in a call without pools and with a declared type mapping, a failed
\* load ends with the zero-row table over the keys of the type mapping and
\* exactly one warning; a successful load ends with no warning.
C5_FailedLoadShape ==
  \A i \in Tasks :
    (strategy = "sequential" /\ ~types.none /\ Done(i)) =>
      IF Failed(i)
      THEN output[i] = Table(Keys(types), <<>>) /\ warned[i] = 1
      ELSE warned[i] = 0

\* The rows of the first k results, in input order.
RECURSIVE RowsUpTo(_, _)
RowsUpTo(out, k) == IF k = 0 THEN <<>> ELSE RowsUpTo(out, k - 1) \o out[k].rows
RECURSIVE RowCount(_, _)
RowCount(out, k) == IF k = 0 THEN 0 ELSE RowCount(out, k - 1) + Len(out[k].rows)

\* C6: when processing_handler has returned and some load produced rows,
\* the returned table holds the rows of all results stacked in input order
\* (so its row count is the sum of theirs), under the declared columns.
C6_MergeStacksNonEmpty ==
  (hpc = "returned" /\ \E i \in Tasks : Len(output[i].rows) > 0) =>
    /\ result.kind = "table"
    /\ result.rows = RowsUpTo(output, N)
    /\ Len(result.rows) = RowCount(output, N)
    /\ result.columns = Columns

\* Results of 2, 0 and 1 rows merged by a thread pool into 3 rows.
C6_Witness ==
  /\ hpc = "returned"
  /\ strategy = "thread"
  /\ N = 3
  /\ Len(output[1].rows) = 2
  /\ EmptyTable(output[2])
  /\ Len(output[3].rows) = 1
  /\ Len(result.rows) = 3

\* C7: when processing_handler has returned and every load produced zero
\* rows, the returned value is the result of the first dataset, a table.
C7_AllEmptyReturnsFirst ==
  (hpc = "returned" /\ N >= 1 /\ \A i \in Tasks : Len(output[i].rows) = 0) =>
    /\ result = output[1]
    /\ result.kind = "table"

\* All results empty, the first of them different from the last.
C7_Witness ==
  /\ hpc = "returned"
  /\ N >= 2
  /\ \A i \in Tasks : EmptyTable(output[i])
  /\ output[1] # output[N]
  /\ result = output[1]

\* What load_handler returns for dataset i when nothing else touches the
\* staging file during the call.
LoadAlone(i) ==
  LET resp == Remote(datasets[i])
      v == ReadOne(resp.body)
      d == Decompress(resp.body)
      df == ReadCsv(d.out, Columns, types, parse_dates)
      co == Coerce(df, parse_dates)
  IN  IF resp.exc # "none" THEN Leave(resp.exc, types).df
      ELSE IF v = "BadGzipFile" THEN Leave("FileNotFoundError", types).df
      ELSE IF v # "none" THEN Leave(v, types).df
      ELSE IF d.err # "none" THEN Leave(d.err, types).df
      ELSE IF df.kind = "raised" THEN Leave(df.exc, types).df
      ELSE IF ~coerce_dates THEN df
      ELSE IF co.kind = "raised" THEN Leave(co.exc, types).df
      ELSE co

\* Load i holds the staging file open for writing, or has written it and
\* not yet read it back.
Staging(i) == lpc[i] \in {"copy", "parse"}

\* C8: under the thread pool, while a load holds its staging file open for
\* writing no other load is writing or about to read a file of that name,
\* and every finished load returned what it returns when run alone.
C8_ThreadsDoNotShareStaging ==
  strategy = "thread" =>
    /\ \A i, j \in Tasks :
         (i # j /\ lpc[i] = "copy" /\ Staging(j)) => file_out(i) # file_out(j)
    /\ \A i \in Tasks : Done(i) => output[i] = LoadAlone(i)

\* C9: under the process pool a load that is about to parse finds in its
\* staging file exactly the lines it decompressed itself.
C9_ProcessesReadOwnStaging ==
  strategy = "process" =>
    \A i \in Tasks :
      lpc[i] = "parse" => fs[file_out(i)].lines = Decompress(Body(i)).out

\* C10: every table a load returns, with or without rows, has the
\* declared column list as its columns.
C10_ColumnsMatchDeclared ==
  \A i \in Tasks :
    (Done(i) /\ output[i].kind = "table") => output[i].columns = Columns

\* C11: no dataset is ever handed to the load function twice, and when the
\* merge has run every dataset has been loaded exactly once, every load has
\* returned its result and none is still in progress.
C11_MergeAfterAllLoads ==
  /\ \A i \in Tasks : calls[i] <= 1
  /\ hpc = "returned" =>
       /\ Active = {}
       /\ \A i \in Tasks : calls[i] = 1 /\ Done(i) /\ output[i].kind = "table"

\* A process pool of two has merged three loads.
C11_Witness ==
  /\ hpc = "returned"
  /\ strategy = "process"
  /\ cores = 2
  /\ N = 3
  /\ \A i \in Tasks : calls[i] = 1

RECURSIVE TotalFetches(_)
TotalFetches(k) == IF k = 0 THEN 0 ELSE TotalFetches(k - 1) + fetches[k]

C13_LoadIdempotent ==
  strategy = "sequential" =>
    \A i, j \in Tasks :
      (Done(i) /\ Done(j) /\ datasets[i] = datasets[j]) =>
        /\ output[i] = output[j]
        /\ warned[i] = warned[j]

\* The same resource loaded first and third, with rows, around a load that
\* staged something else.
C13_Witness ==
  /\ strategy = "sequential"
  /\ N = 3
  /\ \A i \in Tasks : Done(i)
  /\ datasets[1] = datasets[3]
  /\ datasets[1] # datasets[2]
  /\ Len(output[1].rows) = 1
  /\ Len(output[2].rows) = 2
  /\ output[1] = output[3]

\* The lines of a load's own payload, when it stages and parses cleanly.
OwnLines(i) == Decompress(Body(i)).out
LoadsCleanly(i) ==
  /\ Remote(datasets[i]).exc = "none"
  /\ ReadOne(Body(i)) = "none"
  /\ Decompress(Body(i)).err = "none"
  /\ ReadCsv(OwnLines(i), Columns, types, parse_dates).kind = "table"

\* C14: with coerce_dates set, a load made alone whose payload parses and
\* holds an unparsable date ends with a table of all its rows, in which
\* each date is the timestamp it parses to or null when it does not parse,
\* and every other cell is what the parse made of it; this for date
\* columns designated by index and by name alike.
C14_CoerceNullsOnlyBadDates ==
  \A i \in Tasks :
    ( /\ strategy = "sequential"
      /\ coerce_dates
      /\ Done(i)
      /\ LoadsCleanly(i)
      /\ \E r \in 1..Len(OwnLines(i)) : OwnLines(i)[r][1] \notin DateStrings ) =>
      /\ output[i].kind = "table"
      /\ Len(output[i].rows) = Len(OwnLines(i))
      /\ \A r \in 1..Len(output[i].rows) :
           /\ output[i].rows[r][1] =
                IF OwnLines(i)[r][1] \in DateStrings
                THEN ToTimestamp(OwnLines(i)[r][1]) ELSE NaT
           /\ output[i].rows[r][2] =
                ReadCsv(OwnLines(i), Columns, types, parse_dates).rows[r][2]

\* C18: in sequential execution a load is at the parse of the staging
\* file only if its body passed the validation read and decompressed to
\* its end, and the file then holds exactly the lines of that body.
C18_SequentialParseReadsOwn ==
  strategy = "sequential" =>
    \A i \in Tasks :
      lpc[i] = "parse" =>
        /\ ReadOne(Body(i)) = "none"
        /\ Decompress(Body(i)).err = "none"
        /\ fs[file_out(i)] = [exists |-> TRUE, lines |-> OwnLines(i)]

\* The second load of a loop is about to parse its one line after the
\* first load staged and returned two.
C18_Witness ==
  /\ strategy = "sequential"
  /\ N >= 2
  /\ Done(1)
  /\ Len(output[1].rows) = 2
  /\ lpc[2] = "parse"
  /\ Len(fs[file_out(2)].lines) = 1

C16_LoadExceptionPropagates ==
  /\ (\E i \in Tasks : output[i].kind = "raised") =>
       (hpc # "returned" /\ result.kind # "table")
  /\ (hpc = "raised" /\ N > 0) =>
       (result.kind = "raised" /\ \E i \in Tasks : output[i] = result)

\* A thread pool call has raised the ConnectionError of one load although
\* another load returned rows.
C16_Witness ==
  /\ hpc = "raised"
  /\ strategy = "thread"
  /\ result.exc = "ConnectionError"
  /\ \E i \in Tasks : Len(output[i].rows) > 0

\* What the for loop of the sequential strategy gives for the datasets:
\* the exception of the first load that raises, else the merge of the
\* tables the loads return one after the other.
AloneOutputs == [i \in Tasks |-> LoadAlone(i)]
SequentialResult ==
  IF \E i \in Tasks : AloneOutputs[i].kind = "raised"
  THEN LET k == CHOOSE k \in Tasks :
                  /\ AloneOutputs[k].kind = "raised"
                  /\ \A j \in 1..(k - 1) : AloneOutputs[j].kind # "raised"
       IN  AloneOutputs[k]
  ELSE MergeResult(AloneOutputs)

C19_EmptyListReturnsTable ==
  (N = 0 /\ hpc \notin {"start", "loading"}) =>
    (hpc = "returned" /\ result.kind = "table")

\* C20: with an absent type mapping, a load whose body fails the validation
\* read ends with a zero-row table and one warning.
C20_AbsentTypesDegrade ==
  \A i \in Tasks :
    ( /\ types.none
      /\ Done(i)
      /\ Remote(datasets[i]).exc = "none"
      /\ ReadOne(Body(i)) = "BadGzipFile" ) =>
      (EmptyTable(output[i]) /\ warned[i] = 1)

====
